---- MODULE Spec2Model ----
(***************************************************************************)
(* Reminder dispatch of the Deadline Tracker.                              *)
(*                                                                         *)
(* The database holds users, events and reminders.  The import_deadlines   *)
(* management command creates events and their reminders from CSV rows;    *)
(* the Celery task send_due_reminders, run every minute by Celery Beat,    *)
(* scans the reminders that are due and unsent, emails each one and marks  *)
(* it sent.  Time is counted in minutes.                                   *)
(***************************************************************************)
EXTENDS Integers, Sequences, FiniteSets, TLC

(***************************************************************************)
(* Bounds of the model.                                                    *)
(***************************************************************************)
NumUsers == 2
NumWorkers == 2
MaxTime == 1
MaxEvents == 2
MaxReminders == 3
MaxRows == 1
MaxOffsets == 2
MaxCount == 2
MaxRuns == 2

(* The slice [:200] of the scan, scaled down to the size of the model. *)
BatchCap == 2

Users == 1..NumUsers
Workers == 1..NumWorkers

(* A nullable DateTimeField: None, or a one-element tuple holding the time. *)
None == << >>
Some(t) == << t >>

CHANNEL_EMAIL == "email"

Min(a, b) == IF a < b THEN a ELSE b

VARIABLES
    clock,        \* timezone.now(), in minutes
    email,        \* email[u]: user u has a non-empty email address
    events,       \* Event rows, by primary key
    reminders,    \* Reminder rows, by primary key
    pc,           \* position of each worker in send_due_reminders
    now,          \* local variable now of each invocation
    batch,        \* the evaluated queryset of each invocation
    idx,          \* position of the for loop in the batch (1-based)
    sent_count,   \* local variable sent_count of each invocation
    emailCount,   \* emails delivered per reminder (saturates at MaxCount)
    runSent,      \* reminders emailed by the current invocation of a worker
    scanInfo,     \* sinceScan as it was when the worker scanned
    sinceScan,    \* how the database relates to the last scan (see Scan)
    runs,         \* invocations started by Celery Beat while others may run
    skipped       \* reminders that an invocation has passed over (see SkipNoted)

vars == << clock, email, events, reminders, pc, now, batch, idx, sent_count,
           emailCount, runSent, scanInfo, sinceScan, runs, skipped >>

dbVars == << email, events, reminders >>
workerVars == << pc, now, batch, idx, sent_count, runSent, scanInfo >>
mailVars == << emailCount, runs, skipped >>

ReminderIds == 1..Len(reminders)

(* sinceScan.undisturbed: an invocation has scanned, and since its scan no
   reminder was created or became due.  sinceScan.settled: moreover that scan
   took every due, unsent reminder, the invocation has not ended by an error,
   and no address was edited since. *)
Disturbed == [undisturbed |-> FALSE, settled |-> FALSE]

Owner(r) == events[reminders[r].event].user

(***************************************************************************)
(* import_deadlines: the CSV fields are text; parsing is by table.         *)
(***************************************************************************)
Titles == {"", "Exam"}
DueRaws == {"1", "soon"}
OffsetTokens == {"0", "1", "x"}

(* Offsets that only the import specification feeds to the command: a
   negative one, and one beyond what timedelta can hold. *)
WideOffsetTokens == OffsetTokens \cup {"-1", "9"}

(* int(val.strip()): raises ValueError outside its domain. *)
IntOf ==
    [t \in {"0", "1", "-1", "9"} |->
        CASE t = "0" -> 0 [] t = "1" -> 1 [] t = "-1" -> 0 - 1 [] t = "9" -> 9]
IsInt(t) == t \in DOMAIN IntOf

(* parser.parse(due_raw) followed by make_aware: raises outside its domain. *)
DueOf == [t \in {"1"} |-> 1]
IsDate(t) == t \in DOMAIN DueOf

OffsetLists == UNION {[1..n -> OffsetTokens] : n \in 0..MaxOffsets}
Rows == [title : Titles, due_at : DueRaws, offsets : OffsetLists]
CSVs == UNION {[1..n -> Rows] : n \in 1..MaxRows}

WideOffsetLists == UNION {[1..n -> WideOffsetTokens] : n \in 0..MaxOffsets}
WideRows == [title : Titles, due_at : DueRaws, offsets : WideOffsetLists]
WideCSVs == UNION {[1..n -> WideRows] : n \in 1..MaxRows}

RowError(row) ==
    \/ row.title = ""
    \/ ~IsDate(row.due_at)
    \/ \E i \in 1..Len(row.offsets) : ~IsInt(row.offsets[i])

ParseOffsets(toks) == [i \in 1..Len(toks) |-> IntOf[toks[i]]]

(* The largest number of minutes a timedelta holds, scaled down to the size
   of the model; timedelta(minutes=...) raises OverflowError beyond it. *)
TimedeltaMax == 5
Overflows(minutes) == minutes > TimedeltaMax \/ minutes < 0 - TimedeltaMax

(* due + timedelta(minutes=minutes) *)
SendAtAfter(due, minutes) == due + minutes

(* due - timedelta(minutes=minutes) *)
SendAt(due, minutes) == due - minutes

RECURSIVE CreateReminders(_, _, _, _)
(* for minutes in offsets: one Reminder each, saved as it is created; an
   offset that timedelta cannot hold raises and ends the loop. *)
CreateReminders(ev, due, offs, rems) ==
    IF offs = << >> THEN [reminders |-> rems, raised |-> FALSE]
    ELSE IF Overflows(Head(offs)) THEN [reminders |-> rems, raised |-> TRUE]
    ELSE CreateReminders(ev, due, Tail(offs),
             Append(rems, [event |-> ev, channel |-> CHANNEL_EMAIL,
                           send_at |-> SendAt(due, Head(offs)),
                           is_sent |-> FALSE, sent_at |-> None]))

RECURSIVE CreateAll(_, _, _, _)
(* The creation loop: one Event per row, then its Reminders.  Each create
   is saved at once (no transaction is open), so an error raised in the loop
   leaves what was created before it. *)
CreateAll(u, csv, evs, rems) ==
    IF csv = << >> THEN [events |-> evs, reminders |-> rems, raised |-> FALSE]
    ELSE LET row == Head(csv)
             due == DueOf[row.due_at]
             offs == ParseOffsets(row.offsets)
             evs2 == Append(evs, [user |-> u, due_at |-> due])
             cr == CreateReminders(Len(evs) + 1, due, offs, rems)
         IN IF cr.raised
            THEN [events |-> evs2, reminders |-> cr.reminders, raised |-> TRUE]
            ELSE CreateAll(u, Tail(csv), evs2, cr.reminders)

(* handle: the owner is looked up by email address; every row is parsed
   first, and any row in error aborts the command before the creation loop. *)
Import(u, csv) ==
    /\ email[u]
    /\ Len(events) < MaxEvents
    /\ IF \E i \in 1..Len(csv) : RowError(csv[i])
       THEN UNCHANGED << events, reminders >>
       ELSE LET res == CreateAll(u, csv, events, reminders)
            IN /\ Len(res.events) <= MaxEvents
               /\ Len(res.reminders) <= MaxReminders
               /\ events' = res.events
               /\ reminders' = res.reminders
    /\ sinceScan' = IF reminders' # reminders THEN Disturbed ELSE sinceScan
    /\ UNCHANGED << clock, email, workerVars, mailVars >>

(***************************************************************************)
(* The environment: the clock advances, a user's address is edited.        *)
(***************************************************************************)
Tick ==
    /\ clock < MaxTime
    /\ clock' = clock + 1
    /\ sinceScan' = IF \E r \in ReminderIds : reminders[r].send_at = clock + 1
                    THEN Disturbed ELSE sinceScan
    /\ UNCHANGED << dbVars, workerVars, mailVars >>

SetEmail(u) ==
    /\ email' = [email EXCEPT ![u] = ~email[u]]
    /\ sinceScan' = [sinceScan EXCEPT !.settled = FALSE]
    /\ UNCHANGED << clock, events, reminders, workerVars, mailVars >>

(***************************************************************************)
(* send_due_reminders.                                                     *)
(***************************************************************************)
(* The filter without is_sent=False. *)
FilterAnySent(t) ==
    {r \in ReminderIds : reminders[r].send_at <= t}

(* The filter without send_at__lte=now. *)
FilterAnyTime(t) ==
    {r \in ReminderIds : ~reminders[r].is_sent}

(* The filter with send_at=now in place of send_at__lte=now. *)
FilterJustDue(t) ==
    {r \in ReminderIds : ~reminders[r].is_sent /\ reminders[r].send_at = t}

(* .filter(is_sent=False, send_at__lte=now) *)
Filter(t) ==
    {r \in ReminderIds : ~reminders[r].is_sent /\ reminders[r].send_at <= t}

(* .order_by("-send_at"): descending. *)
OrderByDesc(S) ==
    {s \in [1..Cardinality(S) -> S] :
        /\ \A i, j \in 1..Cardinality(S) : i # j => s[i] # s[j]
        /\ \A i, j \in 1..Cardinality(S) :
              i < j => reminders[s[i]].send_at >= reminders[s[j]].send_at}

(* .order_by("send_at"): every order of the rows that is ascending in
   send_at; the database is free in how it orders rows with equal send_at. *)
OrderBy(S) ==
    {s \in [1..Cardinality(S) -> S] :
        /\ \A i, j \in 1..Cardinality(S) : i # j => s[i] # s[j]
        /\ \A i, j \in 1..Cardinality(S) :
              i < j => reminders[s[i]].send_at <= reminders[s[j]].send_at}

(* [:201]: a slice that is one too long. *)
SliceOneMore(s) == SubSeq(s, 1, Min(BatchCap + 1, Len(s)))

(* [:200] *)
Slice(s) == SubSeq(s, 1, Min(BatchCap, Len(s)))

(* select_related("event", "event__user"): the owner's row is read by the
   same query, so the loop sees the address as it was at the scan. *)
Fetch(s) == [i \in 1..Len(s) |-> [id |-> s[i], email |-> email[Owner(s[i])]]]

(* A save of every field, with send_at moved to the time of sending. *)
MarkSentMovesSendAt(rem, t) ==
    [rem EXCEPT !.is_sent = TRUE, !.sent_at = Some(t), !.send_at = t]

(* The save without the is_sent flag. *)
MarkSentNoFlag(rem, t) == [rem EXCEPT !.sent_at = Some(t)]

(* The save without the sent timestamp. *)
MarkSentNoStamp(rem, t) == [rem EXCEPT !.is_sent = TRUE]

(* reminder.is_sent = True; reminder.sent_at = now;
   reminder.save(update_fields=["is_sent", "sent_at"]) *)
MarkSent(rem, t) == [rem EXCEPT !.is_sent = TRUE, !.sent_at = Some(t)]

(* if not user.email: continue *)
Skips(entry) == ~entry.email


InLoop(w) == pc[w] = "loop" /\ idx[w] <= Len(batch[w])

(* now = timezone.now() and the evaluation of the queryset at the for.  The
   workers are interchangeable: the invocation is run by the first idle one. *)
Scan(w) ==
    /\ pc[w] = "idle"
    /\ \A v \in Workers : v < w => pc[v] # "idle"
    /\ \E s \in OrderBy(Filter(clock)) :
          batch' = [batch EXCEPT ![w] = Fetch(Slice(s))]
    /\ now' = [now EXCEPT ![w] = clock]
    /\ idx' = [idx EXCEPT ![w] = 1]
    /\ sent_count' = [sent_count EXCEPT ![w] = 0]
    /\ runSent' = [runSent EXCEPT ![w] = {}]
    /\ pc' = [pc EXCEPT ![w] = "loop"]
    /\ UNCHANGED << clock, dbVars, emailCount, skipped >>

(* An invocation that starts while no other invocation is running.  Only for
   invocations one after the other is it recorded how the scan relates to the
   scan before it. *)
ScanAlone(w) ==
    /\ \A v \in Workers : pc[v] = "idle"
    /\ Scan(w)
    /\ scanInfo' = [scanInfo EXCEPT ![w] = sinceScan]
    /\ sinceScan' = [undisturbed |-> TRUE,
                     settled |-> Cardinality(Filter(clock)) <= BatchCap]
    /\ UNCHANGED runs

(* An invocation that Celery Beat starts whether or not the last one has
   ended. *)
ScanAny(w) ==
    /\ runs < MaxRuns
    /\ Scan(w)
    /\ runs' = runs + 1
    /\ UNCHANGED << scanInfo, sinceScan >>

(* break instead of continue. *)
SkipBreak(w) ==
    /\ InLoop(w)
    /\ Skips(batch[w][idx[w]])
    /\ idx' = [idx EXCEPT ![w] = Len(batch[w]) + 1]
    /\ UNCHANGED << clock, dbVars, pc, now, batch, sent_count, runSent,
                    scanInfo, sinceScan, mailVars >>

Skip(w) ==
    /\ InLoop(w)
    /\ Skips(batch[w][idx[w]])
    /\ idx' = [idx EXCEPT ![w] = idx[w] + 1]
    /\ UNCHANGED << clock, dbVars, pc, now, batch, sent_count, runSent,
                    scanInfo, sinceScan, mailVars >>

(* The same continue, with the reminder recorded as passed over. *)
SkipNoted(w) ==
    /\ InLoop(w)
    /\ Skips(batch[w][idx[w]])
    /\ idx' = [idx EXCEPT ![w] = idx[w] + 1]
    /\ skipped' = skipped \cup {batch[w][idx[w]].id}
    /\ UNCHANGED << clock, dbVars, pc, now, batch, sent_count, runSent,
                    scanInfo, sinceScan, emailCount, runs >>

(* send_mail(...) returns: the email has left. *)
SendOk(w) ==
    /\ InLoop(w)
    /\ ~Skips(batch[w][idx[w]])
    /\ LET r == batch[w][idx[w]].id
       IN /\ emailCount' =
                [emailCount EXCEPT ![r] = Min(emailCount[r] + 1, MaxCount)]
          /\ runSent' = [runSent EXCEPT ![w] = runSent[w] \cup {r}]
    /\ pc' = [pc EXCEPT ![w] = "sent"]
    /\ UNCHANGED << clock, dbVars, now, batch, idx, sent_count, scanInfo,
                    sinceScan, runs, skipped >>

(* The loop inside one transaction: the error undoes the saves of the run. *)
SendFailRollback(w) ==
    /\ InLoop(w)
    /\ ~Skips(batch[w][idx[w]])
    /\ pc' = [pc EXCEPT ![w] = "failed"]
    /\ reminders' = [r \in ReminderIds |->
                        IF r \in runSent[w]
                        THEN [reminders[r] EXCEPT !.is_sent = FALSE,
                                                  !.sent_at = None]
                        ELSE reminders[r]]
    /\ sinceScan' = [sinceScan EXCEPT !.settled = FALSE]
    /\ UNCHANGED << clock, email, events, now, batch, idx, sent_count,
                    runSent, scanInfo, mailVars >>

(* send_mail(..., fail_silently=False) raises: no email has left and the
   exception leaves the task. *)
SendFail(w) ==
    /\ InLoop(w)
    /\ ~Skips(batch[w][idx[w]])
    /\ pc' = [pc EXCEPT ![w] = "failed"]
    /\ sinceScan' = [sinceScan EXCEPT !.settled = FALSE]
    /\ UNCHANGED << clock, dbVars, now, batch, idx, sent_count, runSent,
                    scanInfo, mailVars >>

(* The save after send_mail, without sent_count += 1. *)
MarkNoCount(w) ==
    /\ pc[w] = "sent"
    /\ LET r == batch[w][idx[w]].id
       IN reminders' = [reminders EXCEPT ![r] = MarkSent(reminders[r], now[w])]
    /\ idx' = [idx EXCEPT ![w] = idx[w] + 1]
    /\ pc' = [pc EXCEPT ![w] = "loop"]
    /\ UNCHANGED << clock, email, events, now, batch, sent_count, runSent,
                    scanInfo, sinceScan, mailVars >>

(* The save after send_mail, and sent_count += 1. *)
Mark(w) ==
    /\ pc[w] = "sent"
    /\ LET r == batch[w][idx[w]].id
       IN reminders' = [reminders EXCEPT ![r] = MarkSent(reminders[r], now[w])]
    /\ sent_count' = [sent_count EXCEPT ![w] = sent_count[w] + 1]
    /\ idx' = [idx EXCEPT ![w] = idx[w] + 1]
    /\ pc' = [pc EXCEPT ![w] = "loop"]
    /\ UNCHANGED << clock, email, events, now, batch, runSent, scanInfo,
                    sinceScan, mailVars >>

(* return sent_count *)
Return(w) ==
    /\ pc[w] = "loop"
    /\ idx[w] > Len(batch[w])
    /\ pc' = [pc EXCEPT ![w] = "done"]
    /\ UNCHANGED << clock, dbVars, now, batch, idx, sent_count, runSent,
                    scanInfo, sinceScan, mailVars >>

(* The worker process dies in the middle of the task: its local variables are
   lost, the database and the emails that have left stay as they are. *)
Crash(w) ==
    /\ pc[w] \in {"loop", "sent"}
    /\ pc' = [pc EXCEPT ![w] = "idle"]
    /\ now' = [now EXCEPT ![w] = 0]
    /\ batch' = [batch EXCEPT ![w] = << >>]
    /\ idx' = [idx EXCEPT ![w] = 1]
    /\ sent_count' = [sent_count EXCEPT ![w] = 0]
    /\ runSent' = [runSent EXCEPT ![w] = {}]
    /\ scanInfo' = [scanInfo EXCEPT ![w] = Disturbed]
    /\ sinceScan' = [sinceScan EXCEPT !.settled = FALSE]
    /\ UNCHANGED << clock, dbVars, mailVars >>

(* The invocation is over; the worker is free for the next one. *)
Finish(w) ==
    /\ pc[w] \in {"done", "failed"}
    /\ pc' = [pc EXCEPT ![w] = "idle"]
    /\ now' = [now EXCEPT ![w] = 0]
    /\ batch' = [batch EXCEPT ![w] = << >>]
    /\ idx' = [idx EXCEPT ![w] = 1]
    /\ sent_count' = [sent_count EXCEPT ![w] = 0]
    /\ runSent' = [runSent EXCEPT ![w] = {}]
    /\ scanInfo' = [scanInfo EXCEPT ![w] = Disturbed]
    /\ UNCHANGED << clock, dbVars, mailVars, sinceScan >>

(***************************************************************************)
(* Specifications.                                                         *)
(***************************************************************************)
Init ==
    /\ clock = 0
    /\ email \in [Users -> BOOLEAN]
    /\ events = << >>
    /\ reminders = << >>
    /\ pc = [w \in Workers |-> "idle"]
    /\ now = [w \in Workers |-> 0]
    /\ batch = [w \in Workers |-> << >>]
    /\ idx = [w \in Workers |-> 1]
    /\ sent_count = [w \in Workers |-> 0]
    /\ emailCount = [r \in 1..MaxReminders |-> 0]
    /\ runSent = [w \in Workers |-> {}]
    /\ scanInfo = [w \in Workers |-> Disturbed]
    /\ sinceScan = Disturbed
    /\ runs = 0
    /\ skipped = {}

Environment ==
    \/ Tick
    \/ \E u \in Users : SetEmail(u)
    \/ \E u \in Users, csv \in CSVs : Import(u, csv)

(* Invocations one after the other, each ending by return or by the error of
   send_mail. *)
Next ==
    \/ Environment
    \/ \E w \in Workers : ScanAlone(w)
    \/ \E w \in Workers : Skip(w)
    \/ \E w \in Workers : SendOk(w)
    \/ \E w \in Workers : SendFail(w)
    \/ \E w \in Workers : Mark(w)
    \/ \E w \in Workers : Return(w)
    \/ \E w \in Workers : Finish(w)

Spec == Init /\ [][Next]_vars

(* Invocations one after the other, with the reminders passed over
   recorded. *)
NextSkip ==
    \/ Environment
    \/ \E w \in Workers : ScanAlone(w)
    \/ \E w \in Workers : SkipNoted(w)
    \/ \E w \in Workers : SendOk(w)
    \/ \E w \in Workers : SendFail(w)
    \/ \E w \in Workers : Mark(w)
    \/ \E w \in Workers : Return(w)
    \/ \E w \in Workers : Finish(w)

SpecSkip == Init /\ [][NextSkip]_vars

(* Invocations one after the other, where the worker may also die. *)
NextCrash ==
    \/ Next
    \/ \E w \in Workers : Crash(w)

SpecCrash == Init /\ [][NextCrash]_vars

(* Invocations that overlap: Celery Beat starts MaxRuns invocations whether or
   not the last one has ended, while no address is edited. *)
NextOverlap ==
    \/ Tick
    \/ \E u \in Users, csv \in CSVs : Import(u, csv)
    \/ \E w \in Workers : ScanAny(w)
    \/ \E w \in Workers : SendOk(w)
    \/ \E w \in Workers : SendFail(w)
    \/ \E w \in Workers : Mark(w)
    \/ \E w \in Workers : Return(w)
    \/ \E w \in Workers : Finish(w)

SpecOverlap == Init /\ [][NextOverlap]_vars

(* Invocations one after the other by a transport that always succeeds:
   Celery Beat starts the next invocation every minute and a started
   invocation runs to its end. *)
WorkerStep ==
    \E w \in Workers :
        \/ ScanAlone(w)
        \/ Skip(w)
        \/ SendOk(w)
        \/ Mark(w)
        \/ Return(w)
        \/ Finish(w)

NextFair ==
    \/ Environment
    \/ WorkerStep

SpecFair == Init /\ [][NextFair]_vars /\ WF_vars(WorkerStep)

(* The import command alone, fed every offset the CSV can hold. *)
NextImport ==
    \/ \E u \in Users : SetEmail(u)
    \/ \E u \in Users, csv \in WideCSVs : Import(u, csv)

SpecImport == Init /\ [][NextImport]_vars

TypeOK ==
    /\ clock \in 0..MaxTime
    /\ email \in [Users -> BOOLEAN]
    /\ Len(events) <= MaxEvents
    /\ Len(reminders) <= MaxReminders
    /\ \A r \in ReminderIds : reminders[r].event \in 1..Len(events)
    /\ skipped \subseteq ReminderIds
    /\ \A w \in Workers :
          /\ pc[w] \in {"idle", "loop", "sent", "done", "failed"}
          /\ Len(batch[w]) <= BatchCap
          /\ idx[w] \in 1..(Len(batch[w]) + 1)

(***************************************************************************)
(* Properties.                                                             *)
(***************************************************************************)
BatchIds(w) == {batch[w][i].id : i \in 1..Len(batch[w])}
Running(w) == pc[w] # "idle"

(* The step of worker w that evaluates the queryset. *)
ScanStep(w) == pc[w] = "idle" /\ pc'[w] = "loop"
(* The reminders whose email leaves in this step of worker w. *)
Emailed(w) == runSent'[w] \ runSent[w]

(* C1: over invocations that do not overlap, each returning or aborted by an
   error of send_mail, no reminder is emailed more than once. *)
AtMostOnceInSequence ==
    \A r \in 1..MaxReminders : emailCount[r] <= 1

(* A reminder emailed and marked by an earlier invocation, and a later
   invocation that has run to its end. *)
LaterRunAfterEmail ==
    \E w \in Workers, r \in ReminderIds :
        /\ pc[w] \in {"done", "failed"}
        /\ emailCount[r] = 1
        /\ reminders[r].is_sent
        /\ r \notin runSent[w]
        /\ reminders[r].send_at <= now[w]

(* C2: when invocations overlap, no reminder is emailed more than once. *)
AtMostOnceOverlapping ==
    ~ \E r \in 1..MaxReminders : emailCount[r] > 1

(* C3: a reminder whose email has left is never emailed again, also when
   the invocation that emailed it died before the save. *)
NeverEmailedAgain ==
    [][\A r \in 1..MaxReminders :
          emailCount[r] >= 1 => emailCount'[r] = emailCount[r]]_vars

(* Reminder r is due and unsent, and the scan of a running invocation left it
   out of a full batch. *)
LeftOutByCap(r) ==
    \E w \in Workers :
        /\ pc[w] = "loop"
        /\ Len(batch[w]) = BatchCap
        /\ r \in ReminderIds \ BatchIds(w)
        /\ ~reminders[r].is_sent
        /\ reminders[r].send_at <= now[w]

Selected(r) == \E w \in Workers : Running(w) /\ r \in BatchIds(w)

(* C4: with a transport that always succeeds and invocations that go on, a
   due, unsent reminder left out of a batch by the cap is taken by a later
   invocation. *)
NoStarvationByCap ==
    \A r \in 1..MaxReminders : LeftOutByCap(r) ~> Selected(r)

(* C5: the scan takes only reminders that are unsent and have
   send_at <= now, a reminder with send_at = now is taken when the batch has
   room, and no email leaves before the send_at of its reminder. *)
OnlyDueSelected ==
    [][\A w \in Workers :
          /\ ScanStep(w) =>
                /\ \A i \in 1..Len(batch'[w]) :
                      /\ ~reminders[batch'[w][i].id].is_sent
                      /\ reminders[batch'[w][i].id].send_at <= now'[w]
                /\ now'[w] = clock
                /\ Len(batch'[w]) < BatchCap =>
                      \A r \in ReminderIds :
                          ~reminders[r].is_sent /\ reminders[r].send_at = clock
                              => \E i \in 1..Len(batch'[w]) : batch'[w][i].id = r
          /\ \A r \in Emailed(w) : reminders[r].send_at <= clock]_vars

(* The email of a reminder whose send_at is exactly the time of the scan has
   left. *)
EmailedAtSendAt ==
    \E w \in Workers :
        /\ pc[w] = "sent"
        /\ reminders[batch[w][idx[w]].id].send_at = now[w]
        /\ now[w] > 0

(* C6: is_sent holds exactly when sent_at is set, and is_sent never goes
   back to false, over invocations that return, fail or die. *)
SentIffStamped ==
    /\ [](\A r \in ReminderIds :
             reminders[r].is_sent <=> reminders[r].sent_at # None)
    /\ [][\A r \in ReminderIds :
             reminders[r].is_sent => reminders'[r].is_sent]_vars

(* One reminder is marked sent, another was emailed by an invocation that
   died before the save. *)
MarkedAndUnmarked ==
    \E r1, r2 \in ReminderIds :
        /\ reminders[r1].is_sent
        /\ ~reminders[r2].is_sent
        /\ emailCount[r2] >= 1
        /\ \A w \in Workers : pc[w] = "idle"

(* C7: the batch has at most BatchCap reminders, is ascending in send_at and
   is a prefix of the due, unsent reminders: none left out is strictly earlier
   than one taken. *)
BatchIsSortedPrefix ==
    [][\A w \in Workers : ScanStep(w) =>
          LET b == batch'[w]
              ids == {b[i].id : i \in 1..Len(b)}
          IN /\ Len(b) <= BatchCap
             /\ \A i, j \in 1..Len(b) :
                   i < j => reminders[b[i].id].send_at <= reminders[b[j].id].send_at
             /\ \A r \in ReminderIds :
                   ~reminders[r].is_sent /\ reminders[r].send_at <= clock
                       /\ r \notin ids
                   => /\ Len(b) = BatchCap
                      /\ \A q \in ids :
                            ~(reminders[r].send_at < reminders[q].send_at)]_vars

(* A full batch with two different send_at, and a due reminder left out. *)
BatchCutByCap ==
    \E w \in Workers :
        /\ pc[w] = "loop"
        /\ idx[w] = 1
        /\ Len(batch[w]) = BatchCap
        /\ reminders[batch[w][1].id].send_at
              < reminders[batch[w][BatchCap].id].send_at
        /\ \E r \in ReminderIds \ BatchIds(w) :
              ~reminders[r].is_sent /\ reminders[r].send_at <= now[w]

(* C8: when send_mail fails at position k of the batch, the reminders
   emailed before k stay marked sent, the reminder at k and the later ones stay
   unsent with no sent_at, none of them was emailed by this invocation, and
   the invocation does nothing more. *)
FailFastKeepsSent ==
    /\ [](\A w \in Workers : pc[w] = "failed" =>
            /\ \A i \in 1..Len(batch[w]) :
                  LET r == batch[w][i].id
                  IN IF i < idx[w]
                     THEN ~Skips(batch[w][i]) =>
                              /\ reminders[r].is_sent
                              /\ reminders[r].sent_at # None
                              /\ r \in runSent[w]
                     ELSE /\ ~reminders[r].is_sent
                          /\ reminders[r].sent_at = None
                          /\ r \notin runSent[w]
            /\ sent_count[w] = Cardinality(runSent[w]))
    /\ [][\A w \in Workers : pc[w] = "failed" =>
            /\ pc'[w] \in {"failed", "idle"}
            /\ \A r \in ReminderIds : reminders'[r] = reminders[r]
            /\ emailCount' = emailCount]_vars

(* send_mail has failed for the second reminder of a batch, after the first
   was emailed. *)
FailedAtSecond ==
    \E w \in Workers :
        /\ pc[w] = "failed"
        /\ idx[w] = 2
        /\ Len(batch[w]) = 2
        /\ ~Skips(batch[w][1])

(* C9: a reminder whose owner has no address is passed over: no email, no
   change of the reminder, no error, no count, and the loop goes on with the
   next reminder of the batch. *)
SkipIsSilent ==
    /\ [][\A w \in Workers :
            InLoop(w) /\ Skips(batch[w][idx[w]])
                /\ (pc'[w] # pc[w] \/ idx'[w] # idx[w])
            => /\ pc'[w] = "loop"
               /\ idx'[w] = idx[w] + 1
               /\ batch'[w] = batch[w]
               /\ sent_count'[w] = sent_count[w]
               /\ runSent'[w] = runSent[w]
               /\ emailCount' = emailCount
               /\ reminders' = reminders
               /\ ~reminders[batch[w][idx[w]].id].is_sent
               /\ reminders[batch[w][idx[w]].id].sent_at = None]_vars
    /\ [](\A w \in Workers : pc[w] = "done" =>
            /\ sent_count[w] =
                  Cardinality({i \in 1..Len(batch[w]) : ~Skips(batch[w][i])})
            /\ \A i \in 1..Len(batch[w]) : Skips(batch[w][i]) =>
                  /\ ~reminders[batch[w][i].id].is_sent
                  /\ reminders[batch[w][i].id].sent_at = None
                  /\ batch[w][i].id \notin runSent[w])

(* An invocation has returned after it passed over the first reminder of its
   batch and emailed the second. *)
SkippedThenSent ==
    \E w \in Workers :
        /\ pc[w] = "done"
        /\ Len(batch[w]) = 2
        /\ Skips(batch[w][1])
        /\ ~Skips(batch[w][2])
        /\ sent_count[w] = 1

(* C10, as stated: an invocation that follows another, with no reminder
   created or become due in between, sends nothing and returns 0. *)
SecondRunSendsNothing ==
    \A w \in Workers :
        pc[w] = "done" /\ scanInfo[w].undisturbed
            => sent_count[w] = 0 /\ runSent[w] = {}

(* C10, amended: so it is when moreover the invocation before took every due,
   unsent reminder into its batch and returned, and no address was edited. *)
SecondRunSendsNothingWhenSettled ==
    \A w \in Workers :
        pc[w] = "done" /\ scanInfo[w].settled
            => sent_count[w] = 0 /\ runSent[w] = {}

(* The second of two such invocations has returned, the first had emailed a
   reminder and passed over another, which the second took again. *)
SecondRunAfterSend ==
    \E w \in Workers :
        /\ pc[w] = "done"
        /\ scanInfo[w].settled
        /\ Len(batch[w]) > 0
        /\ \E r \in ReminderIds : reminders[r].is_sent

(* The reminders that are due and unsent at the present time. *)
PendingNow ==
    {r \in ReminderIds : ~reminders[r].is_sent /\ reminders[r].send_at <= clock}

(* A step of the invocation run by worker w. *)
StepOf(w) == pc'[w] # pc[w] \/ idx'[w] # idx[w]

(* C11: with N reminders due and unsent, owners with an address and a
   transport that succeeds, one invocation emails and marks exactly
   min(N, BatchCap) of them and leaves the others pending; a scan of no more
   than BatchCap pending reminders takes them all. *)
CapSplitsTheBacklog ==
    /\ [][\A w \in Workers : ScanStep(w) =>
            /\ Len(batch'[w]) = Min(Cardinality(PendingNow), BatchCap)
            /\ {batch'[w][i].id : i \in 1..Len(batch'[w])} \subseteq PendingNow
            /\ Cardinality({batch'[w][i].id : i \in 1..Len(batch'[w])})
                  = Len(batch'[w])]_vars
    /\ [][\A r \in ReminderIds :
            reminders'[r] # reminders[r] =>
                \E w \in Workers : Running(w) /\ r \in BatchIds(w)]_vars
    /\ [](\A w \in Workers :
            pc[w] = "done" /\ (\A i \in 1..Len(batch[w]) : ~Skips(batch[w][i]))
            => /\ sent_count[w] = Len(batch[w])
               /\ runSent[w] = BatchIds(w)
               /\ \A r \in BatchIds(w) :
                     reminders[r].is_sent /\ emailCount[r] = 1)

(* An invocation has returned after it emailed a full batch, and a due
   reminder of an owner with an address is left pending. *)
FullBatchSentOneLeft ==
    \E w \in Workers :
        /\ pc[w] = "done"
        /\ Len(batch[w]) = BatchCap
        /\ sent_count[w] = BatchCap
        /\ \E r \in ReminderIds \ BatchIds(w) :
              /\ ~reminders[r].is_sent
              /\ reminders[r].send_at <= now[w]
              /\ email[Owner(r)]

(* C12: the value returned is the number of emails sent by the invocation
   and the number of reminders it marked sent; reminders passed over are not
   counted. *)
ReturnCountsSends ==
    /\ [](\A w \in Workers : pc[w] = "done" =>
            /\ sent_count[w] = Cardinality(runSent[w])
            /\ sent_count[w] =
                  Cardinality({r \in BatchIds(w) : reminders[r].is_sent})
            /\ \A i \in 1..Len(batch[w]) :
                  Skips(batch[w][i]) => batch[w][i].id \notin runSent[w])
    /\ [][\A w \in Workers :
            sent_count'[w] # sent_count[w] /\ pc'[w] # "idle" /\ pc[w] # "idle"
            => /\ sent_count'[w] = sent_count[w] + 1
               /\ \E r \in runSent[w] :
                     ~reminders[r].is_sent /\ reminders'[r].is_sent]_vars

(* An invocation has returned 1 after it emailed the first reminder of its
   batch and passed over the second. *)
SentThenSkipped ==
    \E w \in Workers :
        /\ pc[w] = "done"
        /\ Len(batch[w]) = 2
        /\ ~Skips(batch[w][1])
        /\ Skips(batch[w][2])
        /\ sent_count[w] = 1

(* C15: the sent_at written for a reminder is the now of its invocation,
   and at the moment the email leaves that now is not earlier than the
   clock, so no sent_at is earlier than the moment the email left. *)
StampIsTimeOfSending ==
    [][\A w \in Workers :
          /\ Emailed(w) # {} => now[w] >= clock
          /\ \A r \in runSent[w] :
                ~reminders[r].is_sent /\ reminders'[r].is_sent
                    => reminders'[r].sent_at = Some(now[w])]_vars

(* C17: a step of an invocation creates and deletes no reminder, and the
   only reminder it changes is the one it has just emailed, of which it sets
   is_sent and sent_at and nothing else. *)
DispatchFrame ==
    [][\A w \in Workers : StepOf(w) =>
          /\ Len(reminders') = Len(reminders)
          /\ events' = events
          /\ email' = email
          /\ \A r \in ReminderIds :
                reminders'[r] # reminders[r] =>
                    /\ pc[w] = "sent"
                    /\ r = batch[w][idx[w]].id
                    /\ r \in runSent[w]
                    /\ reminders'[r].event = reminders[r].event
                    /\ reminders'[r].channel = reminders[r].channel
                    /\ reminders'[r].send_at = reminders[r].send_at
                    /\ ~reminders[r].is_sent
                    /\ reminders'[r].is_sent]_vars

(* An invocation has ended by an error after it emailed a reminder, with a
   reminder that was not due at its scan. *)
FailedWithOneNotDue ==
    \E w \in Workers :
        /\ pc[w] = "failed"
        /\ runSent[w] # {}
        /\ \E r \in ReminderIds : reminders[r].send_at > now[w]

(* The CSV has a row in error: a row that the parse loop rejects, or an
   offset at which the creation loop raises. *)
InError(csv) ==
    \/ \E i \in 1..Len(csv) : RowError(csv[i])
    \/ \E i \in 1..Len(csv) : \E j \in 1..Len(csv[i].offsets) :
          /\ IsInt(csv[i].offsets[j])
          /\ Overflows(IntOf[csv[i].offsets[j]])

(* The reminders of event ev, in the order of their primary keys. *)
RemindersOf(rems, ev) == SelectSeq(rems, LAMBDA x : x.event = ev)

(* C13: for every imported row with due time D and offsets O the import
   creates one Event and exactly Len(O) reminders of it, duplicates included,
   the j-th with send_at = D - O[j], channel email, is_sent false and sent_at
   null; the reminders that existed stay as they were. *)
ImportCreatesOnePerOffset ==
    [][\A u \in Users, csv \in WideCSVs :
          Import(u, csv) /\ ~InError(csv) =>
              /\ Len(events') = Len(events) + Len(csv)
              /\ SubSeq(events', 1, Len(events)) = events
              /\ SubSeq(reminders', 1, Len(reminders)) = reminders
              /\ \A i \in 1..Len(csv) :
                    LET ev == Len(events) + i
                        D == DueOf[csv[i].due_at]
                        O == csv[i].offsets
                        made == RemindersOf(reminders', ev)
                    IN /\ events'[ev] = [user |-> u, due_at |-> D]
                       /\ Len(made) = Len(O)
                       /\ \A j \in 1..Len(O) :
                             /\ made[j].send_at = D - IntOf[O[j]]
                             /\ made[j].channel = "email"
                             /\ made[j].is_sent = FALSE
                             /\ made[j].sent_at = << >>]_vars

(* An event has two reminders of the same offset. *)
TwoRemindersOfOneOffset ==
    \E q, r \in ReminderIds :
        /\ q < r
        /\ reminders[q].event = reminders[r].event
        /\ reminders[q].send_at = reminders[r].send_at
        /\ reminders[q].send_at = events[reminders[q].event].due_at - 1

(* C14: the import is all-or-nothing: an import of a CSV with a row in
   error, whether the parse loop rejects the row or the creation of its
   records raises, leaves no Event and no Reminder behind. *)
ImportAllOrNothing ==
    [][\A u \in Users, csv \in WideCSVs :
          Import(u, csv) /\ InError(csv) =>
              events' = events /\ reminders' = reminders]_vars

(* C18: every reminder has its send_at at or before the due time of its
   event. *)
NoReminderAfterDue ==
    \A r \in ReminderIds :
        reminders[r].send_at <= events[reminders[r].event].due_at

(* C16 as stated: a reminder passed over for want of an address is in the
   batch of every later invocation and is passed over again while the address
   is missing; an invocation that finds the address emails and marks it. *)
SkippedIsRetried ==
    /\ [][\A w \in Workers : ScanStep(w) =>
            \A r \in skipped : ~reminders[r].is_sent =>
                r \in {batch'[w][i].id : i \in 1..Len(batch'[w])}]_vars
    /\ [][\A w \in Workers :
            /\ StepOf(w)
            /\ InLoop(w)
            /\ batch[w][idx[w]].id \in skipped
            /\ ~batch[w][idx[w]].email
            => /\ idx'[w] = idx[w] + 1
               /\ Emailed(w) = {}
               /\ reminders' = reminders]_vars
    /\ [](\A w \in Workers : pc[w] \in {"done", "failed"} =>
            \A i \in 1..Len(batch[w]) :
                batch[w][i].email /\ batch[w][i].id \in skipped
                    => /\ reminders[batch[w][i].id].is_sent
                       /\ batch[w][i].id \in runSent[w])

(* C16, amended: a reminder passed over for want of an address is in the
   batch of every later invocation unless that batch is full of reminders
   whose send_at is not later than its own; it is passed over again while the
   address is missing; an invocation that finds the address and returns has
   emailed and marked it. *)
SkippedIsRetriedWithinCap ==
    /\ [][\A w \in Workers : ScanStep(w) =>
            \A r \in skipped : ~reminders[r].is_sent =>
                \/ r \in {batch'[w][i].id : i \in 1..Len(batch'[w])}
                \/ /\ Len(batch'[w]) = BatchCap
                   /\ \A i \in 1..Len(batch'[w]) :
                         reminders[batch'[w][i].id].send_at
                             <= reminders[r].send_at]_vars
    /\ [][\A w \in Workers :
            /\ StepOf(w)
            /\ InLoop(w)
            /\ batch[w][idx[w]].id \in skipped
            /\ ~batch[w][idx[w]].email
            => /\ idx'[w] = idx[w] + 1
               /\ Emailed(w) = {}
               /\ reminders' = reminders]_vars
    /\ [](\A w \in Workers : pc[w] = "done" =>
            \A i \in 1..Len(batch[w]) :
                batch[w][i].email /\ batch[w][i].id \in skipped
                    => /\ reminders[batch[w][i].id].is_sent
                       /\ batch[w][i].id \in runSent[w])

(* A reminder that an earlier invocation passed over has been emailed and
   marked by an invocation that found the address and has returned. *)
SkippedThenEmailed ==
    \E w \in Workers :
        /\ pc[w] = "done"
        /\ \E i \in 1..Len(batch[w]) :
              /\ batch[w][i].email
              /\ batch[w][i].id \in skipped
              /\ batch[w][i].id \in runSent[w]
              /\ reminders[batch[w][i].id].is_sent

====
